---- MODULE Spec2Model ----
(***************************************************************************)
(* Model of src/main.py: the git commit generator.  One run of the program *)
(* is a sequential walk through main(); pc is the position in main().      *)
(* The version-control collaborator (git, reached through run_command) is  *)
(* the environment: each of its calls succeeds or fails nondeterministic-  *)
(* ally, and a KeyboardInterrupt may arrive at any position of main().     *)
(***************************************************************************)
EXTENDS Integers, Sequences, FiniteSets, TLC

VARIABLES
    pc,             \* position in main() / __main__
    config,         \* the parsed arguments / CommitConfig (lines 65-77)
    repoOk,         \* environment: does `git rev-parse --abbrev-ref HEAD` succeed
    i,              \* loop variable of `for i in range(config.count)` (line 88)
    failed_commits, \* line 86
    clock,          \* last wall-clock second read by datetime.now() (line 46)
    branchCalls,    \* number of get_current_branch() queries sent to git
    commitCalls,    \* the `git commit --allow-empty` requests, in order
    pushCalls,      \* the `git push` requests, in order
    output,         \* what was printed, in order
    exitCode,       \* process exit status, -1 while running
    interruptedAt   \* pc at which KeyboardInterrupt was raised, "" if none

vars == <<pc, config, repoOk, i, failed_commits, clock, branchCalls,
          commitCalls, pushCalls, output, exitCode, interruptedAt>>

\* ---- bounds -------------------------------------------------------------
MaxCount == 5
MaxClock == 1

\* ---- inputs -------------------------------------------------------------
\* argparse type=int accepts zero and negative numbers for `count`.
Counts == (0 - 1)..MaxCount
\* --branch: absent (None), given as the empty string, or given a name.
NoBranch == "<None>"
Branches == {NoBranch, "", "main"}
\* --prefix: the default and one custom plain word.
Prefixes == {"Commit", "wip"}

\* ---- helpers ------------------------------------------------------------
NoMessage == [prefix |-> "", seq |-> 0, total |-> 0, ts |-> 0]

\* One printed line: kind, a number, a percentage in tenths, a commit message.
Out(k, n, p, m) == [k |-> k, n |-> n, pct |-> p, msg |-> m]
Line(k) == Out(k, 0, 0, NoMessage)

\* variant: the message numbers the commits from 0 (the +1 forgotten)
CommitMessageZeroBased(commit_number, total_commits, cfg, timestamp) ==
    [prefix |-> cfg.message_prefix, seq |-> commit_number,
     total |-> total_commits, ts |-> timestamp]

\* f"{prefix} {commit_number + 1} of {total_commits} at {timestamp}"
CommitMessage(commit_number, total_commits, cfg, timestamp) ==
    [prefix |-> cfg.message_prefix, seq |-> commit_number + 1,
     total |-> total_commits, ts |-> timestamp]

\* (i + 1) / count * 100 formatted with .1f, as a number of tenths.
\* Rounded to nearest; a tie needs 16 | count, outside MaxCount.
ProgressTenths(idx, count) == ((idx + 1) * 2000 + count) \div (2 * count)

\* variant: a dry run never asks git for the current branch
BranchIsFalsyUnlessDry(cfg) ==
    ~cfg.dry_run /\ (cfg.branch = NoBranch \/ cfg.branch = "")

\* `config.branch or get_current_branch()`: None and "" are both falsy.
BranchIsFalsy(cfg) == cfg.branch = NoBranch \/ cfg.branch = ""

\* variant: `failed_commits = 1` written for `failed_commits += 1`
CountFailureAssign(failed, success) == IF success THEN failed ELSE 1

\* `if not make_commit(...): failed_commits += 1`
CountFailure(failed, success) == IF success THEN failed ELSE failed + 1

\* variant: range(config.count - 1), the last iteration is dropped
LoopHasNextShort(idx, cfg) == idx < cfg.count - 1

\* `for i in range(config.count)` has another iteration
LoopHasNext(idx, cfg) == idx < cfg.count

\* variant: the dry-run test is missing from the push condition
ShouldPushIgnoringDryRun(cfg) == cfg.auto_push

\* `if config.auto_push and not config.dry_run`
ShouldPush(cfg) == cfg.auto_push /\ ~cfg.dry_run

\* `elif config.auto_push and config.dry_run`
ShouldAnnouncePush(cfg) == cfg.auto_push /\ cfg.dry_run

\* variant: a failed push is escalated to exit status 1
ExitStatusPushStrict(failed, cfg, pushes) ==
    IF \E j \in DOMAIN pushes : pushes[j] = "failed" THEN 1 ELSE 0

\* variant: a run in which every commit failed exits with status 1
ExitStatusAllFailedStrict(failed, cfg, pushes) ==
    IF failed = cfg.count THEN 1 ELSE 0

\* main() returning normally: the interpreter exits with status 0.
ExitStatusOnReturn(failed, cfg, pushes) == 0

\* sys.exit(1) in the KeyboardInterrupt handler
ExitStatusOnInterrupt == 1

SetLast(s, v) == [s EXCEPT ![Len(s)] = v]

Running == {"validate", "header", "loop", "commit", "committing",
            "push", "pushing", "return"}

\* ---- initial state: arguments parsed (lines 58-65) ------------------------
Init ==
    /\ pc = "validate"
    /\ config \in [count : Counts, auto_push : BOOLEAN, dry_run : BOOLEAN,
                   branch : Branches, message_prefix : Prefixes]
    /\ repoOk \in BOOLEAN
    /\ i = 0
    /\ failed_commits = 0
    /\ clock = 0
    /\ branchCalls = 0
    /\ commitCalls = <<>>
    /\ pushCalls = <<>>
    /\ output = <<>>
    /\ exitCode = 0 - 1
    /\ interruptedAt = ""

\* ---- lines 67-69: count <= 0 is rejected ---------------------------------
RejectCount ==
    /\ pc = "validate"
    /\ config.count <= 0
    /\ output' = Append(output, Line("config_error"))
    /\ exitCode' = 1
    /\ pc' = "exited"
    /\ UNCHANGED <<config, repoOk, i, failed_commits, clock, branchCalls,
                   commitCalls, pushCalls, interruptedAt>>

\* ---- lines 67-77: count accepted, CommitConfig built ----------------------
AcceptCount ==
    /\ pc = "validate"
    /\ ~(config.count <= 0)
    /\ pc' = "header"
    /\ UNCHANGED <<config, repoOk, i, failed_commits, clock, branchCalls,
                   commitCalls, pushCalls, output, exitCode, interruptedAt>>

\* ---- lines 79-86: header; the branch is queried only when not given ------
HeaderTail ==
    <<Line("branch"), Line("autopush")>>
      \o (IF config.dry_run THEN <<Line("dry_mode")>> ELSE <<>>)
      \o <<Line("rule")>>

PrintHeader ==
    /\ pc = "header"
    /\ BranchIsFalsy(config) => repoOk
    /\ branchCalls' = IF BranchIsFalsy(config) THEN branchCalls + 1
                      ELSE branchCalls
    /\ output' = Append(output, Line("start")) \o HeaderTail
    /\ failed_commits' = 0
    /\ i' = 0
    /\ pc' = "loop"
    /\ UNCHANGED <<config, repoOk, clock, commitCalls, pushCalls, exitCode,
                   interruptedAt>>

\* variant: the failed query is reported but the run goes on
BranchResolutionFailsContinue ==
    /\ pc = "header"
    /\ BranchIsFalsy(config)
    /\ ~repoOk
    /\ branchCalls' = branchCalls + 1
    /\ output' = output \o <<Line("start"), Line("repo_error")>>
    /\ failed_commits' = 0
    /\ i' = 0
    /\ pc' = "loop"
    /\ UNCHANGED <<config, repoOk, clock, commitCalls, pushCalls, exitCode,
                   interruptedAt>>

\* ---- lines 36-41 reached from line 80: rev-parse fails, sys.exit(1) -------
BranchResolutionFails ==
    /\ pc = "header"
    /\ BranchIsFalsy(config)
    /\ ~repoOk
    /\ branchCalls' = branchCalls + 1
    /\ output' = output \o <<Line("start"), Line("repo_error")>>
    /\ exitCode' = 1
    /\ pc' = "exited"
    /\ UNCHANGED <<config, repoOk, i, failed_commits, clock, commitCalls,
                   pushCalls, interruptedAt>>

\* variant: the indicator is printed after the commit step it reports
ProgressAfterCommit ==
    /\ pc = "loop"
    /\ LoopHasNext(i, config)
    /\ output' = IF i = 0 THEN output
                 ELSE Append(output, Out("progress", i,
                                ProgressTenths(i - 1, config.count), NoMessage))
    /\ pc' = "commit"
    /\ UNCHANGED <<config, repoOk, i, failed_commits, clock, branchCalls,
                   commitCalls, pushCalls, exitCode, interruptedAt>>

\* ---- lines 88-90: next iteration, progress indicator printed -------------
Progress ==
    /\ pc = "loop"
    /\ LoopHasNext(i, config)
    /\ output' = Append(output, Out("progress", i + 1,
                                    ProgressTenths(i, config.count), NoMessage))
    /\ pc' = "commit"
    /\ UNCHANGED <<config, repoOk, i, failed_commits, clock, branchCalls,
                   commitCalls, pushCalls, exitCode, interruptedAt>>

\* ---- lines 46-51, 92: make_commit in dry-run mode returns True -----------
MakeCommitDry ==
    /\ pc = "commit"
    /\ config.dry_run
    /\ \E t \in clock..MaxClock :
         /\ clock' = t
         /\ output' = Append(output,
                Out("would_commit", i + 1, 0,
                    CommitMessage(i, config.count, config, t)))
    /\ failed_commits' = CountFailure(failed_commits, TRUE)
    /\ i' = i + 1
    /\ pc' = "loop"
    /\ UNCHANGED <<config, repoOk, branchCalls, commitCalls, pushCalls,
                   exitCode, interruptedAt>>

\* ---- lines 46-53: make_commit sends `git commit --allow-empty` -----------
CommitRequest ==
    /\ pc = "commit"
    /\ ~config.dry_run
    /\ \E t \in clock..MaxClock :
         /\ clock' = t
         /\ commitCalls' = Append(commitCalls,
                [msg |-> CommitMessage(i, config.count, config, t),
                 result |-> "pending"])
    /\ pc' = "committing"
    /\ UNCHANGED <<config, repoOk, i, failed_commits, branchCalls, pushCalls,
                   output, exitCode, interruptedAt>>

\* ---- lines 53-54, 92-93: git returns; a failure is counted ---------------
CommitReturn ==
    /\ pc = "committing"
    /\ \E success \in BOOLEAN :
         /\ commitCalls' = SetLast(commitCalls,
                [commitCalls[Len(commitCalls)] EXCEPT
                    !.result = IF success THEN "ok" ELSE "failed"])
         /\ failed_commits' = CountFailure(failed_commits, success)
    /\ i' = i + 1
    /\ pc' = "loop"
    /\ UNCHANGED <<config, repoOk, clock, branchCalls, pushCalls, output,
                   exitCode, interruptedAt>>

\* ---- lines 95-98: loop exhausted, summary and warning --------------------
LoopEnd ==
    /\ pc = "loop"
    /\ ~LoopHasNext(i, config)
    /\ output' = Append(output, Line("complete"))
                   \o (IF failed_commits > 0
                       THEN <<Out("warning", failed_commits, 0, NoMessage)>>
                       ELSE <<>>)
    /\ pc' = "push"
    /\ UNCHANGED <<config, repoOk, i, failed_commits, clock, branchCalls,
                   commitCalls, pushCalls, exitCode, interruptedAt>>

\* ---- lines 100-102: `git push` is sent -----------------------------------
PushRequest ==
    /\ pc = "push"
    /\ ShouldPush(config)
    /\ output' = Append(output, Line("pushing"))
    /\ pushCalls' = Append(pushCalls, "pending")
    /\ pc' = "pushing"
    /\ UNCHANGED <<config, repoOk, i, failed_commits, clock, branchCalls,
                   commitCalls, exitCode, interruptedAt>>

\* ---- lines 102-106: `git push` returns, result printed -------------------
PushReturn ==
    /\ pc = "pushing"
    /\ \E success \in BOOLEAN :
         /\ pushCalls' = SetLast(pushCalls, IF success THEN "ok" ELSE "failed")
         /\ output' = Append(output,
                IF success THEN Line("pushed") ELSE Line("push_failed"))
    /\ pc' = "return"
    /\ UNCHANGED <<config, repoOk, i, failed_commits, clock, branchCalls,
                   commitCalls, exitCode, interruptedAt>>

\* ---- lines 107-108: dry run only announces the push ----------------------
PushDry ==
    /\ pc = "push"
    /\ ~ShouldPush(config)
    /\ ShouldAnnouncePush(config)
    /\ output' = Append(output, Line("would_push"))
    /\ pc' = "return"
    /\ UNCHANGED <<config, repoOk, i, failed_commits, clock, branchCalls,
                   commitCalls, pushCalls, exitCode, interruptedAt>>

\* ---- lines 100-108: neither branch of the if/elif is taken ---------------
NoPush ==
    /\ pc = "push"
    /\ ~ShouldPush(config)
    /\ ~ShouldAnnouncePush(config)
    /\ pc' = "return"
    /\ UNCHANGED <<config, repoOk, i, failed_commits, clock, branchCalls,
                   commitCalls, pushCalls, output, exitCode, interruptedAt>>

\* ---- lines 110-112: main() returns, the process exits --------------------
Return ==
    /\ pc = "return"
    /\ exitCode' = ExitStatusOnReturn(failed_commits, config, pushCalls)
    /\ pc' = "exited"
    /\ UNCHANGED <<config, repoOk, i, failed_commits, clock, branchCalls,
                   commitCalls, pushCalls, output, interruptedAt>>

\* ---- line 113: KeyboardInterrupt raised somewhere inside main() ----------
\* A git call in flight never returns to the program: its result is lost.
Interrupt ==
    /\ pc \in Running
    /\ interruptedAt' = pc
    /\ commitCalls' = IF pc = "committing"
                      THEN SetLast(commitCalls,
                             [commitCalls[Len(commitCalls)] EXCEPT
                                !.result = "interrupted"])
                      ELSE commitCalls
    /\ pushCalls' = IF pc = "pushing" THEN SetLast(pushCalls, "interrupted")
                    ELSE pushCalls
    /\ pc' = "interrupted"
    /\ UNCHANGED <<config, repoOk, i, failed_commits, clock, branchCalls,
                   output, exitCode>>

\* variant: the handler only prints; falling off the end exits with 0
HandleInterruptNoExit ==
    /\ pc = "interrupted"
    /\ output' = Append(output, Line("cancelled"))
    /\ exitCode' = ExitStatusOnReturn(failed_commits, config, pushCalls)
    /\ pc' = "exited"
    /\ UNCHANGED <<config, repoOk, i, failed_commits, clock, branchCalls,
                   commitCalls, pushCalls, interruptedAt>>

\* ---- lines 113-115: the handler prints and exits with status 1 -----------
HandleInterrupt ==
    /\ pc = "interrupted"
    /\ output' = Append(output, Line("cancelled"))
    /\ exitCode' = ExitStatusOnInterrupt
    /\ pc' = "exited"
    /\ UNCHANGED <<config, repoOk, i, failed_commits, clock, branchCalls,
                   commitCalls, pushCalls, interruptedAt>>

Next ==
    \/ RejectCount
    \/ AcceptCount
    \/ PrintHeader
    \/ BranchResolutionFails
    \/ Progress
    \/ MakeCommitDry
    \/ CommitRequest
    \/ CommitReturn
    \/ LoopEnd
    \/ PushRequest
    \/ PushReturn
    \/ PushDry
    \/ NoPush
    \/ Return
    \/ Interrupt
    \/ HandleInterrupt

Spec == Init /\ [][Next]_vars

\* ---- vocabulary of the properties ---------------------------------------
NumOut(k) == Cardinality({j \in DOMAIN output : output[j].k = k})

NumResult(r) ==
    Cardinality({j \in DOMAIN commitCalls : commitCalls[j].result = r})

NumProgressUpTo(idx) ==
    Cardinality({j \in 1..idx : output[j].k = "progress"})

\* get_current_branch() is not needed or succeeds
BranchResolves == BranchIsFalsy(config) => repoOk

Uninterrupted == interruptedAt = ""

\* main() returned and the process exited
RunCompleted == pc = "exited" /\ Uninterrupted /\ exitCode = 0

\* the for loop has been left through its end
AfterLoop ==
    \/ pc \in {"push", "pushing", "return"}
    \/ interruptedAt \in {"push", "pushing", "return"}
    \/ RunCompleted

\* commit steps begun / finished so far (dry-run notice or git commit)
StepsBegun ==
    IF config.dry_run THEN NumOut("would_commit") ELSE Len(commitCalls)

StepsFinished ==
    IF config.dry_run THEN NumOut("would_commit")
    ELSE NumResult("ok") + NumResult("failed")

TypeOK ==
    /\ pc \in Running \cup {"interrupted", "exited"}
    /\ i \in 0..(MaxCount + 1)
    /\ failed_commits \in 0..(MaxCount + 1)
    /\ exitCode \in {0 - 1, 0, 1}

\* ---- C1 ------------------------------------------------------------------
\* C1: in a non-dry run the j-th createEmptyCommit request carries sequence
\* number j of count, so the numbers are strictly increasing, used once, and
\* the messages pairwise distinct; once the loop has been left exactly count
\* requests were made.  With count <= 0 no collaborator operation is ever
\* invoked and the uninterrupted run prints the configuration error and
\* exits with status 1.
C1_CommitSequence ==
    /\ \A j \in DOMAIN commitCalls :
         /\ commitCalls[j].msg.seq = j
         /\ commitCalls[j].msg.total = config.count
    /\ \A j, k \in DOMAIN commitCalls :
         j # k => commitCalls[j].msg # commitCalls[k].msg
    /\ Len(commitCalls) <= (IF config.count > 0 THEN config.count ELSE 0)
    /\ (config.count > 0 /\ ~config.dry_run /\ AfterLoop)
         => Len(commitCalls) = config.count
    /\ config.count <= 0 =>
         /\ branchCalls = 0 /\ commitCalls = <<>> /\ pushCalls = <<>>
         /\ (pc = "exited" /\ Uninterrupted) =>
              (exitCode = 1 /\ output = <<Line("config_error")>>)

C1_Witness ==
    /\ RunCompleted /\ ~config.dry_run /\ config.count = 3
    /\ Len(commitCalls) = 3
    /\ commitCalls[1].msg.ts = commitCalls[3].msg.ts

\* ---- C2 ------------------------------------------------------------------
\* C2: failed_commits always equals the number of commit requests that
\* returned a failure, 0 <= failed_commits <= iterations done <= count, a
\* failure never ends the loop (after the loop all count requests were
\* made), and count=5 failing at 2 and 4 ends with failed_commits = 2; when
\* every request fails failed_commits = count.
C2_FailureAccounting ==
    /\ failed_commits = NumResult("failed")
    /\ config.count > 0 =>
         (0 <= failed_commits /\ failed_commits <= i /\ i <= config.count)
    /\ (AfterLoop /\ config.count > 0) =>
         /\ i = config.count
         /\ ~config.dry_run => Len(commitCalls) = config.count
         /\ ~config.dry_run =>
              failed_commits =
                Cardinality({j \in 1..config.count :
                               commitCalls[j].result = "failed"})
         /\ (\A j \in DOMAIN commitCalls : commitCalls[j].result = "failed")
              => (config.dry_run \/ failed_commits = config.count)

C2_Witness ==
    /\ RunCompleted /\ config.count = 5 /\ Len(commitCalls) = 5
    /\ \A j \in 1..5 : (commitCalls[j].result = "failed") <=> (j \in {2, 4})
    /\ failed_commits = 2

\* ---- C3 ------------------------------------------------------------------
\* C3: a dry run never sends createEmptyCommit or push, keeps failed_commits
\* at 0, and on completion has printed the would-push notice exactly once
\* when auto_push is set (never otherwise).
C3_DryRunNoMutation ==
    config.dry_run =>
      /\ commitCalls = <<>>
      /\ pushCalls = <<>>
      /\ failed_commits = 0
      /\ NumOut("pushing") = 0
      /\ (RunCompleted /\ config.auto_push) => NumOut("would_push") = 1
      /\ ~config.auto_push => NumOut("would_push") = 0
      /\ RunCompleted => NumOut("would_commit") = config.count

C3_Witness ==
    /\ RunCompleted /\ config.dry_run /\ config.auto_push
    /\ config.branch = "main" /\ config.count = 3
    /\ NumOut("would_push") = 1 /\ NumOut("would_commit") = 3

\* ---- C4 ------------------------------------------------------------------
DryPushNoBranch ==
    /\ config.dry_run /\ config.auto_push
    /\ config.branch = NoBranch /\ config.count > 0

PastHeader ==
    /\ pc \notin {"validate", "header"}
    /\ interruptedAt \notin {"validate", "header"}

\* C4 as stated: a dry run with auto_push and no branch given makes no
\* collaborator call at all (no getCurrentBranch, createEmptyCommit, push)
\* and prints count would-commit notices and one would-push notice.
C4_Original ==
    DryPushNoBranch =>
      /\ branchCalls = 0 /\ commitCalls = <<>> /\ pushCalls = <<>>
      /\ RunCompleted =>
           (NumOut("would_commit") = config.count /\ NumOut("would_push") = 1)

\* C4 amended: such a run sends no createEmptyCommit and no push, but it
\* does query getCurrentBranch exactly once for the header; when it
\* completes it has printed count would-commit notices and one would-push.
C4_DryRunQueriesBranchOnly ==
    DryPushNoBranch =>
      /\ commitCalls = <<>> /\ pushCalls = <<>>
      /\ branchCalls = (IF PastHeader THEN 1 ELSE 0)
      /\ RunCompleted =>
           (NumOut("would_commit") = config.count /\ NumOut("would_push") = 1)

C4_Witness ==
    /\ DryPushNoBranch /\ RunCompleted /\ config.count = 2
    /\ branchCalls = 1
    /\ NumOut("would_commit") = 2 /\ NumOut("would_push") = 1

\* ---- C5 ------------------------------------------------------------------
NoCommitNoPushExit1 ==
    /\ commitCalls = <<>>
    /\ pushCalls = <<>>
    /\ pc = "exited" => exitCode = 1

C6_PushOnceAfterLoop ==
    /\ Len(pushCalls) <= 1
    /\ Len(pushCalls) = 1 =>
         /\ config.auto_push /\ ~config.dry_run
         /\ i = config.count
         /\ Len(commitCalls) = config.count
         /\ \A j \in DOMAIN commitCalls :
              commitCalls[j].result \in {"ok", "failed"}
    /\ (RunCompleted /\ config.auto_push /\ ~config.dry_run)
         => Len(pushCalls) = 1
    /\ (~config.auto_push \/ config.dry_run) => pushCalls = <<>>
    /\ (pc = "exited" /\ Uninterrupted /\ exitCode = 1) => pushCalls = <<>>
    /\ interruptedAt \in {"validate", "header", "loop", "commit",
                          "committing", "push"} => pushCalls = <<>>

C6_Witness ==
    /\ RunCompleted /\ config.count = 2 /\ failed_commits = 2
    /\ pushCalls = <<"ok">>

\* ---- C7 ------------------------------------------------------------------
\* C7: an uninterrupted run with count > 0 whose branch resolves exits with
\* status 0 when fewer than count commits failed, whether the push
\* succeeded, failed or was not requested; a failed push is only printed.
C7_ExitZeroOnPartialFailure ==
    (pc = "exited" /\ Uninterrupted /\ config.count > 0 /\ BranchResolves
       /\ failed_commits < config.count)
      => /\ exitCode = 0
         /\ pushCalls = <<"failed">> => NumOut("push_failed") = 1

C7_Witness ==
    /\ RunCompleted /\ config.count = 3 /\ failed_commits = 1
    /\ pushCalls = <<"failed">> /\ NumOut("push_failed") = 1

\* ---- C8 ------------------------------------------------------------------
CompletedWithFailures ==
    /\ pc = "exited" /\ Uninterrupted /\ config.count > 0 /\ BranchResolves
    /\ failed_commits > 0

\* C8 as stated: with failed_commits = count the process does not exit with
\* a success status; with 0 < failed_commits < count it warns and exits 0.
C8_Original ==
    CompletedWithFailures =>
      /\ failed_commits = config.count => exitCode # 0
      /\ failed_commits < config.count =>
           (exitCode = 0 /\ NumOut("warning") = 1)

\* C8 amended: a completed run with failed_commits > 0 only warns and exits
\* with status 0, also when every commit failed (failed_commits = count).
C8_ExitZeroEvenIfAllFailed ==
    CompletedWithFailures =>
      /\ exitCode = 0
      /\ NumOut("warning") = 1
      /\ \A j \in DOMAIN output :
           output[j].k = "warning" => output[j].n = failed_commits

C8_Witness ==
    /\ CompletedWithFailures /\ config.count = 2 /\ failed_commits = 2
    /\ exitCode = 0 /\ ~config.auto_push

\* ---- C9 ------------------------------------------------------------------
\* C9: once KeyboardInterrupt has been raised the only step left prints the
\* cancellation message and exits with status 1: no createEmptyCommit and
\* no push is requested afterwards; requests already made are never
\* withdrawn and a commit that was created stays created.
C9_InterruptAborts ==
    [][ /\ Len(commitCalls') >= Len(commitCalls)
        /\ \A j \in DOMAIN commitCalls :
             /\ commitCalls'[j].msg = commitCalls[j].msg
             /\ commitCalls[j].result = "ok" => commitCalls'[j].result = "ok"
        /\ interruptedAt # "" =>
             /\ commitCalls' = commitCalls
             /\ pushCalls' = pushCalls
             /\ branchCalls' = branchCalls
             /\ output' = Append(output, Line("cancelled"))
             /\ exitCode' = 1
             /\ pc' = "exited"
      ]_vars

C9_Witness ==
    /\ pc = "exited" /\ interruptedAt = "loop" /\ exitCode = 1
    /\ config.count = 3 /\ Len(commitCalls) = 2
    /\ commitCalls[1].result = "ok"
    /\ output[Len(output)].k = "cancelled"

\* ---- C10 -----------------------------------------------------------------
\* C10 as stated: the commit step of a sequence number finishes before the
\* indicator showing that number is printed, so the indicator never shows
\* a number whose commit step has not been attempted yet.
C10_Original ==
    NumOut("progress") <= StepsFinished

\* C10 amended: in every iteration the indicator showing i+1 of count is
\* printed first and the commit step for i+1 comes after it, finishing
\* before the next indicator; the k-th indicator shows k, and when it is
\* printed exactly k-1 commit steps have been attempted.
C10_ProgressBeforeCommit ==
    /\ StepsBegun <= NumOut("progress")
    /\ NumOut("progress") <= StepsFinished + 1
    /\ \A idx \in DOMAIN output :
         /\ output[idx].k = "progress" =>
              /\ output[idx].n = NumProgressUpTo(idx)
              /\ output[idx].pct = ProgressTenths(output[idx].n - 1,
                                                  config.count)
         /\ output[idx].k = "would_commit" =>
              /\ idx > 1
              /\ output[idx - 1].k = "progress"
              /\ output[idx - 1].n = output[idx].n
              /\ output[idx].msg.seq = output[idx].n
    /\ pc \in {"commit", "committing"} =>
         (NumOut("progress") = i + 1 /\ StepsFinished = i)

C10_Witness ==
    /\ pc = "commit" /\ i = 1 /\ config.count = 3 /\ ~config.dry_run
    /\ NumOut("progress") = 2 /\ Len(commitCalls) = 1
    /\ output[Len(output)].k = "progress" /\ output[Len(output)].n = 2
====
